---- MODULE Spec2Model ----
(***************************************************************************)
(* A model of the job-application assistant: agents.py (the text           *)
(* generation client with its retry loop, the resume parser, job           *)
(* discovery, the content generators) and the agent logic of app.py.       *)
(*                                                                         *)
(* A Python str is a sequence of atoms.  An atom is one character where    *)
(* the code looks inside the text (error messages, websites, company       *)
(* names), one lexical token where the JSON decoder reads it, and one      *)
(* opaque piece of literal text elsewhere (the boilerplate of a template). *)
(* A Python value is a record tagged by its type in field t.               *)
(*                                                                         *)
(* What app.py only displays (the log lines, the results table, the        *)
(* widgets) is not part of the state; the counters of the session are.     *)
(***************************************************************************)
EXTENDS Integers, Sequences, FiniteSets, TLC

VARIABLES
    fn,         \* the function of agents.py in progress; "none", then "done"
    args,       \* its arguments
    fret,       \* the value the last finished function returned
    gpc,        \* position inside get_gemini_response
    attempt,    \* its loop variable
    gtrace,     \* the requests and sleeps of the current call, in order
    gret,       \* what get_gemini_response returned
    dpc,        \* position inside discover_jobs
    apc,        \* position of the agent logic of app.py
    run,        \* the local variables of the current run of the agent logic
    stats,      \* st.session_state['stats']
    outcome,    \* how the last run of the agent logic ended
    runs        \* number of runs started in this session

gvars == <<gpc, attempt, gtrace, gret>>
fvars == <<fn, args, fret, dpc>>
avars == <<apc, run, stats, outcome, runs>>
vars == <<fn, args, fret, gpc, attempt, gtrace, gret, dpc,
          apc, run, stats, outcome, runs>>

----------------------------------------------------------------------------
(* Bounds of the model *)

\* longest error message enumerated over the digits of "429"
MaxMsgLen == 2
\* longest model response enumerated over the JSON tokens
MaxRespLen == 2
\* most result items the job-search API answers with
MaxResults == 4
\* runs of the agent logic in one session
MaxRuns == 2

----------------------------------------------------------------------------
(* Python values *)

PyNone == [t |-> "None"]
PyStr(s) == [t |-> "str", v |-> s]
PyList(s) == [t |-> "list", v |-> s]
PyDict(f) == [t |-> "dict", v |-> f]
PyBool(b) == [t |-> "bool", v |-> b]
PyNum(n) == [t |-> "num", v |-> n]
\* an exception leaving the function
PyRaise(m) == [t |-> "raise", v |-> m]

\* Python truthiness of the values tested by the code
Truthy(x) ==
    CASE x.t = "None" -> FALSE
      [] x.t = "str" -> Len(x.v) > 0
      [] x.t = "list" -> Len(x.v) > 0
      [] x.t = "dict" -> DOMAIN x.v # {}
      [] x.t = "num" -> x.v # 0
      [] OTHER -> TRUE

Range(s) == {s[i] : i \in DOMAIN s}
SeqsUpTo(S, n) == UNION {[1..k -> S] : k \in 0..n}

----------------------------------------------------------------------------
(* str operations *)

\* sub in s
Contains(s, sub) ==
    \E i \in 0..(Len(s) - Len(sub)) : SubSeq(s, i + 1, i + Len(sub)) = sub

StartsAt(s, i, sub) ==
    /\ i + Len(sub) - 1 <= Len(s)
    /\ SubSeq(s, i, i + Len(sub) - 1) = sub

\* s.replace(old, new) for a non-empty old: left to right, not overlapping
RECURSIVE ReplaceFrom(_, _, _, _)
ReplaceFrom(s, i, old, new) ==
    IF i > Len(s) THEN <<>>
    ELSE IF StartsAt(s, i, old)
         THEN new \o ReplaceFrom(s, i + Len(old), old, new)
         ELSE <<s[i]>> \o ReplaceFrom(s, i + 1, old, new)

Replace(s, old, new) == ReplaceFrom(s, 1, old, new)

\* s.split(sep)[0] for a one-character sep
SplitFirst(s, sep) ==
    IF \E i \in DOMAIN s : s[i] = sep
    THEN SubSeq(s, 1, (CHOOSE i \in DOMAIN s :
                          s[i] = sep /\ \A j \in 1..(i - 1) : s[j] # sep) - 1)
    ELSE s

\* s[:n]
Take(s, n) == SubSeq(s, 1, IF Len(s) < n THEN Len(s) ELSE n)

UpperCase == <<"A", "B", "C", "D", "E", "F", "G", "H", "I", "J", "K", "L", "M",
               "N", "O", "P", "Q", "R", "S", "T", "U", "V", "W", "X", "Y", "Z">>
LowerCase == <<"a", "b", "c", "d", "e", "f", "g", "h", "i", "j", "k", "l", "m",
               "n", "o", "p", "q", "r", "s", "t", "u", "v", "w", "x", "y", "z">>

LowerChar(c) ==
    IF \E i \in DOMAIN UpperCase : UpperCase[i] = c
    THEN LowerCase[CHOOSE i \in DOMAIN UpperCase : UpperCase[i] = c]
    ELSE c

\* s.lower()
Lower(s) == [i \in DOMAIN s |-> LowerChar(s[i])]

Whitespace == {" ", "\n"}

\* s.strip()
RECURSIVE LStrip(_)
LStrip(s) == IF s # <<>> /\ Head(s) \in Whitespace THEN LStrip(Tail(s)) ELSE s
RECURSIVE RStrip(_)
RStrip(s) ==
    IF s # <<>> /\ s[Len(s)] \in Whitespace
    THEN RStrip(SubSeq(s, 1, Len(s) - 1)) ELSE s
Strip(s) == RStrip(LStrip(s))

----------------------------------------------------------------------------
(* get_gemini_response *)

max_retries == 3
base_delay == 10

S429 == <<"4", "2", "9">>
SQuota == <<"Q", "u", "o", "t", "a", " ", "e", "x", "c", "e", "e", "d", "e", "d">>
SErrorPrefix == <<"E", "r", "r", "o", "r", ":", " ">>

\* the messages str(e) of the exceptions a request raises
ErrorMessages ==
    { S429, SQuota,
      <<"q", "u", "o", "t", "a", " ", "e", "x", "c", "e", "e", "d", "e", "d">>,
      <<"H", "T", "T", "P", " ", "4", "2", "9">>,
      <<"5", "0", "0", " ", "I", "n", "t", "e", "r", "n", "a", "l">> }
    \cup SeqsUpTo({"4", "2", "9"}, MaxMsgLen)

\* the test of line 21
IsRateLimit(msg) == Contains(msg, S429) \/ Contains(msg, SQuota)

wait_time_doubled(a) == base_delay * (2 ^ (a + 1))
wait_time(a) == base_delay * (2 ^ a)


\* the except clause, lines 20-29: sleep and go round the loop, or return
OnException_raise(a, msg) ==
    IF IsRateLimit(msg)
    THEN IF a < max_retries - 1
         THEN [act |-> "sleep", t |-> wait_time(a), v |-> PyNone]
         ELSE [act |-> "return", t |-> 0, v |-> PyRaise(msg)]
    ELSE [act |-> "return", t |-> 0, v |-> PyStr(SErrorPrefix \o msg)]
OnException_retry_all(a, msg) ==
    IF a < max_retries - 1
    THEN [act |-> "sleep", t |-> wait_time(a), v |-> PyNone]
    ELSE [act |-> "return", t |-> 0, v |-> PyNone]
OnException(a, msg) ==
    IF IsRateLimit(msg)
    THEN IF a < max_retries - 1
         THEN [act |-> "sleep", t |-> wait_time(a), v |-> PyNone]
         ELSE [act |-> "return", t |-> 0, v |-> PyNone]
    ELSE [act |-> "return", t |-> 0, v |-> PyStr(SErrorPrefix \o msg)]

Event(e, out, msg, t) == [e |-> e, out |-> out, msg |-> msg, t |-> t]

\* entering get_gemini_response: lines 9-16
GeminiEnter ==
    /\ gpc' = "request"
    /\ attempt' = 0
    /\ gtrace' = <<>>
    /\ gret' = PyNone

\* line 18-19: the request succeeds and its text is returned
GeminiOk(text) ==
    /\ gpc = "request"
    /\ gtrace' = Append(gtrace, Event("req", "ok", text, 0))
    /\ gret' = PyStr(text)
    /\ gpc' = "ret"
    /\ UNCHANGED <<attempt, fvars, avars>>

\* lines 20-29: the request raises an exception with message msg; the event
\* keeps the wait the except clause decided on
GeminiFail(msg) ==
    LET d == OnException(attempt, msg) IN
    /\ gpc = "request"
    /\ gtrace' = Append(gtrace, Event("req", "err", msg, d.t))
    /\ IF d.act = "sleep"
       THEN gpc' = "sleep" /\ UNCHANGED gret
       ELSE gpc' = "ret" /\ gret' = d.v
    /\ UNCHANGED <<attempt, fvars, avars>>

\* line 25, time.sleep(wait_time), then the next round of the for loop of
\* line 16; line 30 when the loop is over
GeminiSleep ==
    /\ gpc = "sleep"
    /\ gtrace' = Append(gtrace, Event("sleep", "", <<>>, gtrace[Len(gtrace)].t))
    /\ attempt' = attempt + 1
    /\ IF attempt + 1 < max_retries
       THEN gpc' = "request" /\ UNCHANGED gret
       ELSE gpc' = "ret" /\ gret' = PyNone
    /\ UNCHANGED <<fvars, avars>>

\* the atoms of a response.text: JSON punctuation, blanks, the Markdown code
\* fence of three backquotes (written "<fence>"), the word json, JSON strings
\* (written with their quotes), a number, null, and pieces of prose
SFence == "<fence>"
QRole == "\"role\""
QSkills == "\"skills\""
QPython == "\"Python\""
QSql == "\"SQL\""
QDataScientist == "\"Data Scientist\""

\* the JSON string tokens and the text each denotes
JsonStringValue ==
    (QRole :> "role") @@ (QSkills :> "skills") @@ (QPython :> "Python")
    @@ (QSql :> "SQL") @@ (QDataScientist :> "Data Scientist")
JsonNumbers == {"1"}

RBare == <<"{", QRole, ":", " ", QDataScientist, ",", " ", QSkills, ":", " ",
           "[", QPython, ",", " ", QSql, "]", "}">>
RFenced == <<SFence, "json", "\n">> \o RBare \o <<"\n", SFence>>
RNoSkills == <<"{", QRole, ":", QDataScientist, "}">>
RProse == <<"Sure, here is the JSON:", " ">> \o RBare
RLetter == <<"Dear Hiring Manager, I build data pipelines.">>
RTrailingComma == <<"[", QPython, ",", "]">>
RNoColon == <<"{", QRole, QDataScientist, "}">>
RNoComma == <<"[", QPython, QSql, "]">>
RBadKey == <<"{", "1", ":", "1", "}">>
RTwice == RNoSkills \o RNoSkills

EnumTokens == {"{", "}", "[", "]", " ", "1"}

\* what response.text can be
Responses ==
    {RBare, RFenced, RNoSkills, RProse, RLetter, RTrailingComma, RNoColon,
     RNoComma, RBadKey, RTwice}
    \cup SeqsUpTo(EnumTokens, MaxRespLen)

Prompts == {<<"p">>, <<>>}

----------------------------------------------------------------------------
(* json.loads over the tokens of a text *)

EOF == "<eof>"
Tok(s, i) == IF i \in DOMAIN s THEN s[i] ELSE EOF

RECURSIVE SkipWs(_, _)
SkipWs(s, i) == IF Tok(s, i) \in Whitespace THEN SkipWs(s, i + 1) ELSE i

Parsed(v, next) == [ok |-> TRUE, val |-> v, next |-> next, err |-> ""]
ParseError(msg, at) == [ok |-> FALSE, val |-> PyNone, next |-> at, err |-> msg]

EmptyDict == [k \in {} |-> PyNone]
\* d[key] = v
DictPut(d, key, v) ==
    [k \in DOMAIN d \cup {key} |-> IF k = key THEN v ELSE d[k]]

RECURSIVE ParseValue(_, _)
RECURSIVE ParseMembers(_, _, _)
RECURSIVE ParseElements(_, _, _)

\* the members of an object, s[i] being where a key must stand
ParseMembers(s, i, d) ==
    IF Tok(s, i) \notin DOMAIN JsonStringValue
    THEN ParseError("Expecting property name enclosed in double quotes", i)
    ELSE LET c == SkipWs(s, i + 1) IN
         IF Tok(s, c) # ":" THEN ParseError("Expecting ':' delimiter", c)
         ELSE LET r == ParseValue(s, SkipWs(s, c + 1)) IN
              IF ~r.ok THEN r
              ELSE LET d2 == DictPut(d, JsonStringValue[Tok(s, i)], r.val)
                       e == SkipWs(s, r.next)
                   IN  IF Tok(s, e) = "}" THEN Parsed(PyDict(d2), e + 1)
                       ELSE IF Tok(s, e) = ","
                            THEN ParseMembers(s, SkipWs(s, e + 1), d2)
                            ELSE ParseError("Expecting ',' delimiter", e)

\* the elements of an array, s[i] being where a value must stand
ParseElements(s, i, l) ==
    LET r == ParseValue(s, i) IN
    IF ~r.ok THEN r
    ELSE LET l2 == Append(l, r.val)
             e == SkipWs(s, r.next)
         IN  IF Tok(s, e) = "]" THEN Parsed(PyList(l2), e + 1)
             ELSE IF Tok(s, e) = ","
                  THEN ParseElements(s, SkipWs(s, e + 1), l2)
                  ELSE ParseError("Expecting ',' delimiter", e)

ParseValue(s, i) ==
    LET t == Tok(s, i) IN
    IF t \in DOMAIN JsonStringValue THEN Parsed(PyStr(<<JsonStringValue[t]>>), i + 1)
    ELSE IF t \in JsonNumbers THEN Parsed(PyNum(1), i + 1)
    ELSE IF t = "null" THEN Parsed(PyNone, i + 1)
    ELSE IF t = "{"
         THEN LET j == SkipWs(s, i + 1) IN
              IF Tok(s, j) = "}" THEN Parsed(PyDict(EmptyDict), j + 1)
              ELSE ParseMembers(s, j, EmptyDict)
    ELSE IF t = "["
         THEN LET j == SkipWs(s, i + 1) IN
              IF Tok(s, j) = "]" THEN Parsed(PyList(<<>>), j + 1)
              ELSE ParseElements(s, j, <<>>)
    ELSE ParseError("Expecting value", i)

\* json.loads(s): one value, blanks around it, nothing after it
json_loads(s) ==
    LET r == ParseValue(s, SkipWs(s, 1)) IN
    IF ~r.ok THEN r
    ELSE IF SkipWs(s, r.next) <= Len(s) THEN ParseError("Extra data", SkipWs(s, r.next))
    ELSE r

----------------------------------------------------------------------------
(* parse_resume_with_ai *)

ResumeBudget == 800

SSoftwareDeveloper == <<"Software Developer">>

\* line 51
DefaultRecord ==
    PyDict(("role" :> PyStr(SSoftwareDeveloper))
           @@ ("skills" :> PyList(<<PyStr(<<"Python">>)>>)))

\* line 56
ErrorRecord(msg) ==
    PyDict(("role" :> PyStr(SSoftwareDeveloper))
           @@ ("skills" :> PyList(<<>>))
           @@ ("error" :> PyStr(<<msg>>)))

\* line 53
CleanResponse(text) ==
    Strip(Replace(Replace(text, <<SFence, "json">>, <<>>), <<SFence>>, <<>>))

\* lines 35-47
ResumePrompt(resume_text) ==
    <<"Analyze the following resume text ... Resume Text:">>
    \o Take(resume_text, ResumeBudget)

\* lines 48-56, given what get_gemini_response did
ParseResumeResult_unguarded(gr) ==
    IF gr.t = "raise" THEN gr
    ELSE IF ~Truthy(gr) THEN DefaultRecord
    ELSE LET r == json_loads(CleanResponse(gr.v)) IN
         IF r.ok THEN r.val ELSE PyRaise(r.err)
ParseResumeResult(gr) ==
    IF gr.t = "raise" THEN ErrorRecord("raised")
    ELSE IF ~Truthy(gr) THEN DefaultRecord
    ELSE LET r == json_loads(CleanResponse(gr.v)) IN
         IF r.ok THEN r.val ELSE ErrorRecord(r.err)

----------------------------------------------------------------------------
(* dicts and f-strings *)

\* d.get(key, default)
DictGet(d, key, default) == IF key \in DOMAIN d THEN d[key] ELSE default

\* the text an f-string puts for a value
Format(x) ==
    CASE x.t = "str" -> x.v
      [] x.t = "None" -> <<"None">>
      [] x.t = "num" -> <<"1">>
      [] OTHER -> <<"<repr>">>

\* x[:n] raises TypeError unless x can be sliced
CanSlice(x) == x.t \in {"str", "list"}

----------------------------------------------------------------------------
(* search_jobs_jsearch *)

num_results == 3
DescriptionBudget == 800

SHttps == <<"h", "t", "t", "p", "s", ":", "/", "/">>
SHttp == <<"h", "t", "t", "p", ":", "/", "/">>
SWww == <<"w", "w", "w", ".">>
SDotCom == <<".", "c", "o", "m">>
SHrAt == <<"h", "r", "@">>
SCareersAt == <<"c", "a", "r", "e", "e", "r", "s", "@">>
SUnknownCompany == <<"U", "n", "k", "n", "o", "w", "n", " ", "C", "o", "m", "p", "a", "n", "y">>

\* line 100
WebsiteDomain(w) ==
    SplitFirst(Replace(Replace(Replace(w, SHttps, <<>>), SHttp, <<>>), SWww, <<>>), "/")

\* line 102
CompanyDomain(c) ==
    Replace(Replace(Replace(Lower(c), <<" ">>, <<>>), <<",">>, <<>>), <<".">>, <<>>)
    \o SDotCom

\* lines 86-104 raise (AttributeError, TypeError) on these items
ItemRaises(item) ==
    \/ item.t # "dict"
    \/ LET company == DictGet(item.v, "employer_name", PyStr(SUnknownCompany))
           website == DictGet(item.v, "employer_website", PyStr(<<>>))
           domain == IF Truthy(website) THEN WebsiteDomain(website.v)
                     ELSE IF Truthy(company) THEN CompanyDomain(company.v)
                     ELSE <<>>
       IN  \/ ~CanSlice(DictGet(item.v, "job_description", PyStr(<<>>)))
           \/ Truthy(website) /\ website.t # "str"
           \/ ~Truthy(website) /\ Truthy(company) /\ company.t # "str"
           \/ domain = <<>> /\ company.t # "str"

\* lines 86-114: the listing made of one result item that does not raise
MapItem(item, role, location) ==
    LET company == DictGet(item.v, "employer_name", PyStr(SUnknownCompany))
        job_title == DictGet(item.v, "job_title", role)
        city == DictGet(item.v, "job_city", location)
        job_location == IF Truthy(city) THEN city ELSE location
        job_description ==
            Take(DictGet(item.v, "job_description", PyStr(<<>>)).v, DescriptionBudget)
        apply_link == DictGet(item.v, "job_apply_link", PyStr(<<>>))
        website == DictGet(item.v, "employer_website", PyStr(<<>>))
        domain == IF Truthy(website) THEN WebsiteDomain(website.v)
                  ELSE IF Truthy(company) THEN CompanyDomain(company.v)
                  ELSE <<>>
        hr_email == IF domain # <<>> THEN SHrAt \o domain
                    ELSE SCareersAt \o Replace(Lower(company.v), <<" ">>, <<>>) \o SDotCom
    IN  [company |-> company,
         role |-> job_title,
         location |-> job_location,
         hr_email |-> PyStr(hr_email),
         job_description |-> PyStr(job_description),
         apply_link |-> apply_link,
         status |-> PyStr(<<"Found">>)]

\* lines 78-119: api is what the request of line 79 met
search_jobs_jsearch(role, location, api) ==
    IF api.kind # "json" THEN <<>>                      \* lines 79-80 raise
    ELSE IF api.body.t # "dict" THEN <<>>               \* data.get raises
    ELSE LET data == DictGet(api.body.v, "data", PyList(<<>>)) IN
         IF ~CanSlice(data) THEN <<>>
         ELSE LET items == Take(data.v, num_results) IN
              IF \E k \in DOMAIN items : ItemRaises(items[k]) THEN <<>>
              ELSE [k \in DOMAIN items |-> MapItem(items[k], role, location)]

----------------------------------------------------------------------------
(* simulate_job_discovery *)

companies ==
    << <<"T", "e", "c", "h", "C", "o", "r", "p", " ", "S", "o", "l", "u", "t", "i", "o", "n", "s">>,
       <<"I", "n", "n", "o", "v", "a", "t", "e", "X">>,
       <<"D", "a", "t", "a", "S", "t", "r", "e", "a", "m", " ", "I", "n", "c", ".">>,
       <<"C", "l", "o", "u", "d", "N", "e", "t", " ", "S", "y", "s", "t", "e", "m", "s">>,
       <<"A", "l", "p", "h", "a", "W", "a", "v", "e", " ", "A", "I">> >>

\* what random.shuffle can leave: every order of the list
Shuffles ==
    {p \in [DOMAIN companies -> DOMAIN companies] :
        \A a, b \in DOMAIN companies : a # b => p[a] # p[b]}

SimulatedCount == 3

\* line 134
SimulatedEmail_keeps_period(company) ==
    SHrAt \o Replace(Lower(company), <<" ">>, <<>>) \o SDotCom
SimulatedEmail(company) ==
    SHrAt \o Replace(Replace(Lower(company), <<" ">>, <<>>), <<".">>, <<>>) \o SDotCom

\* lines 130-139
SimulatedJob(company, role, location) ==
    [company |-> PyStr(company),
     role |-> role,
     location |-> location,
     hr_email |-> PyStr(SimulatedEmail(company)),
     job_description |->
         PyStr(<<"We are looking for a skilled ">> \o Format(role)
               \o <<" to join our team at ">> \o company \o <<" in ">>
               \o Format(location) \o <<". The ideal candidate ...">>),
     apply_link |-> PyStr(<<>>),
     status |-> PyStr(<<"Found (Simulated)">>)]

\* lines 125-140, the shuffle having left the companies in order p
simulate_job_discovery(role, location, p) ==
    [k \in 1..SimulatedCount |-> SimulatedJob(companies[p[k]], role, location)]

----------------------------------------------------------------------------
(* discover_jobs *)

\* line 147
KeyGiven(key) == Truthy(key) /\ Strip(key.v) # <<>>

\* line 149
SearchUsable_always(jobs) == TRUE
SearchUsable(jobs) == jobs # <<>>

Discovered(jobs, mode) == [t |-> "tuple", jobs |-> jobs, mode |-> mode]

NoRequest == [kind |-> "none", body |-> PyNone]
NoShuffle == <<>>

----------------------------------------------------------------------------
(* generate_cover_letter *)

SFallbackMarker == "(Note: Generated via Fallback Mode - Gemini API rate limit reached)"

\* lines 157-159
CoverCompany(job) == DictGet(job, "company", PyStr(<<"the company">>))
CoverRole_default(job) == PyStr(<<"the position">>)
CoverRole(job) == DictGet(job, "role", PyStr(<<"the position">>))

\* lines 179-190
CoverFallback(job) ==
    <<"Dear Hiring Manager, I am excited to apply for the ">>
    \o Format(CoverRole(job)) \o <<" position at ">> \o Format(CoverCompany(job))
    \o <<". Based on my experience ... I am particularly drawn to ">>
    \o Format(CoverCompany(job))
    \o <<"'s mission ... Sincerely, Applicant">> \o <<SFallbackMarker>>

\* lines 161-174 raise TypeError when job_description[:400] cannot be taken
CoverPromptRaises(job) ==
    ~CanSlice(DictGet(job, "job_description", PyStr(<<>>)))

CoverPrompt(resume_text, job) ==
    <<"Write a professional and personalized cover letter ... Role: ">>
    \o Format(CoverRole(job)) \o <<"Company: ">> \o Format(CoverCompany(job))
    \o <<"Job Description: ">>
    \o Take(DictGet(job, "job_description", PyStr(<<>>)).v, 400)
    \o <<"Candidate Resume (first 500 chars):">> \o Take(resume_text, 500)

\* lines 177-191, given what get_gemini_response did
CoverLetterResult(job, gr) ==
    IF gr.t = "raise" THEN gr
    ELSE IF ~Truthy(gr) THEN PyStr(CoverFallback(job))
    ELSE gr

----------------------------------------------------------------------------
(* generate_interview_questions *)

\* lines 193: the parameters, none with a default value
InterviewParams == <<"role", "resume_text", "found_jobs", "api_key">>

\* lines 200-203 raise when a job_description cannot be sliced
InterviewPromptRaises(found_jobs) ==
    \E k \in DOMAIN Take(found_jobs, 3) :
        ~CanSlice(DictGet(found_jobs[k], "job_description", PyStr(<<>>)))

\* lines 228-240
InterviewFallback(role) ==
    <<"**Standard Interview Questions for ">> \o Format(role)
    \o <<"** *(Gemini API rate limit reached)* 1. Walk me through your experience as a ">>
    \o Format(role)
    \o <<". 2. What tools and technologies do you use daily in your work as a ">>
    \o Format(role) \o <<"? 3. ... 10. ...">>

\* lines 224-241, given what get_gemini_response did
InterviewResult(role, gr) ==
    IF gr.t = "raise" THEN gr
    ELSE IF ~Truthy(gr) THEN PyStr(InterviewFallback(role))
    ELSE gr

----------------------------------------------------------------------------
(* Calls of the functions of agents.py *)

NoArgs == [f |-> "none", prompt |-> <<>>]

\* get_gemini_response(prompt, api_key) called on its own
CallGemini(prompt) ==
    /\ fn = "none"
    /\ fn' = "gemini"
    /\ args' = [f |-> "gemini", prompt |-> prompt]
    /\ fret' = PyNone
    /\ GeminiEnter
    /\ UNCHANGED dpc

\* what function f returns once get_gemini_response has returned: lines
\* 50-56, 177-191, 226-241
ReturnValue(f) ==
    CASE f = "gemini" -> gret
      [] f = "parse" -> ParseResumeResult(gret)
      [] f = "cover" -> CoverLetterResult(args.job, gret)
      [] f = "interview" -> InterviewResult(args.role, gret)

Return(f) ==
    /\ fn = f /\ gpc = "ret"
    /\ fret' = ReturnValue(f)
    /\ fn' = "done"
    /\ gpc' = "idle"
    /\ UNCHANGED <<args, attempt, gtrace, gret, dpc, avars>>

\* parse_resume_with_ai(resume_text, api_key): lines 35-49
CallParse(resume_text) ==
    /\ fn = "none"
    /\ fn' = "parse"
    /\ args' = [f |-> "parse", prompt |-> ResumePrompt(resume_text),
                resume_text |-> resume_text]
    /\ fret' = PyNone
    /\ GeminiEnter
    /\ UNCHANGED dpc

\* generate_cover_letter(resume_text, job, api_key): lines 157-175
CallCover(resume_text, job) ==
    /\ fn = "none"
    /\ args' = [f |-> "cover",
                prompt |-> IF CoverPromptRaises(job) THEN <<>>
                           ELSE CoverPrompt(resume_text, job),
                resume_text |-> resume_text, job |-> job]
    /\ IF CoverPromptRaises(job)
       THEN /\ fn' = "done"
            /\ fret' = PyRaise("TypeError")
            /\ gpc' = "idle" /\ attempt' = 0 /\ gtrace' = <<>> /\ gret' = PyNone
       ELSE /\ fn' = "cover"
            /\ fret' = PyNone
            /\ GeminiEnter
    /\ UNCHANGED dpc

\* generate_interview_questions(role, resume_text, found_jobs, api_key):
\* lines 199-224
CallInterview(role, resume_text, found_jobs) ==
    /\ fn = "none"
    /\ args' = [f |-> "interview",
                prompt |-> <<"You are an expert interview coach ...">>,
                role |-> role, resume_text |-> resume_text,
                found_jobs |-> found_jobs]
    /\ IF InterviewPromptRaises(found_jobs)
       THEN /\ fn' = "done"
            /\ fret' = PyRaise("TypeError")
            /\ gpc' = "idle" /\ attempt' = 0 /\ gtrace' = <<>> /\ gret' = PyNone
       ELSE /\ fn' = "interview"
            /\ fret' = PyNone
            /\ GeminiEnter
    /\ UNCHANGED dpc

\* discover_jobs(role, location, rapidapi_key): line 147
DiscoverCall(role, location, key) ==
    /\ fn = "none"
    /\ fn' = "discover"
    /\ args' = [f |-> "discover", prompt |-> <<>>, role |-> role, location |-> location,
                key |-> key, api |-> NoRequest, order |-> NoShuffle]
    /\ fret' = PyNone
    /\ dpc' = IF KeyGiven(key) THEN "search" ELSE "simulate"
    /\ gpc' = "idle" /\ attempt' = 0 /\ gtrace' = <<>> /\ gret' = PyNone

\* lines 148-150: search_jobs_jsearch, its request meeting api
DiscoverSearch(api) ==
    LET jobs == search_jobs_jsearch(args.role, args.location, api) IN
    /\ fn = "discover" /\ dpc = "search"
    /\ args' = [args EXCEPT !.api = api]
    /\ IF SearchUsable(jobs)
       THEN fret' = Discovered(jobs, "real") /\ fn' = "done" /\ dpc' = "idle"
       ELSE dpc' = "simulate" /\ UNCHANGED <<fn, fret>>
    /\ UNCHANGED <<gvars, avars>>

\* line 153: simulate_job_discovery, random.shuffle leaving the order p
DiscoverSimulate(p) ==
    /\ fn = "discover" /\ dpc = "simulate"
    /\ args' = [args EXCEPT !.order = p]
    /\ fret' = Discovered(simulate_job_discovery(args.role, args.location, p),
                          "simulated")
    /\ fn' = "done"
    /\ dpc' = "idle"
    /\ UNCHANGED <<gvars, avars>>

----------------------------------------------------------------------------
(* The functions of agents.py, each called with any arguments *)

Roles == {PyStr(<<"Python Developer">>), PyStr(<<>>)}
Locations == {PyStr(<<"Ahmedabad">>)}
Resumes == {<<>>, [i \in 1..(ResumeBudget + 1) |-> "x"]}

\* the rapidapi_key arguments: absent (the default ""), None, blank, a key
Keys == {PyStr(<<>>), PyNone, PyStr(<<" ">>), PyStr(<<" ", "\n">>),
         PyStr(<<"k", "e", "y">>), PyStr(<<" ", "k">>)}

SAcmeSite == <<"h", "t", "t", "p", "s", ":", "/", "/", "w", "w", "w", ".", "A", "c", "m", "e", ".", "i", "o", "/", "c", "a", "r", "e", "e", "r", "s">>
STechCorp == <<"T", "e", "c", "h", ",", " ", "C", "o", "r", "p", ".">>

Missing == [t |-> "missing"]
ItemFields == {"employer_name", "employer_website", "job_title", "job_city",
               "job_description", "job_apply_link"}

\* a result item: each field absent, null or a text
ItemOf(r) == PyDict([k \in {f \in ItemFields : r[f] # Missing} |-> r[k]])

GoodFields ==
    [employer_name |-> PyStr(<<"A", "c", "m", "e">>), employer_website |-> Missing,
     job_title |-> PyStr(<<"Developer">>), job_city |-> PyStr(<<"Pune">>),
     job_description |-> PyStr(<<"Build things.">>), job_apply_link |-> Missing]

EmployerNames ==
    {Missing, PyNone, PyStr(<<>>), PyStr(STechCorp), PyStr(<<"A", "c", "m", "e">>)}
EmployerWebsites ==
    {Missing, PyNone, PyStr(<<>>), PyStr(SAcmeSite), PyStr(SHttps),
     PyStr(<<"a", ".", "i", "o">>),
     PyStr(SHttp \o <<"w", "w", "w", ".", "a", ".", "i", "o", "/">>)}

\* every employer name with every website, and each other field absent, null
\* or empty in turn
Items ==
    {ItemOf([GoodFields EXCEPT !.employer_name = n, !.employer_website = w]) :
        n \in EmployerNames, w \in EmployerWebsites}
    \cup {ItemOf([GoodFields EXCEPT ![f] = x]) :
            f \in ItemFields, x \in {Missing, PyNone, PyStr(<<>>), PyStr(<<"x">>)}}

GoodItem ==
    PyDict(("employer_name" :> PyStr(<<"A", "c", "m", "e">>))
           @@ ("job_description" :> PyStr(<<"Build things.">>)))
NullDescriptionItem == PyDict("job_description" :> PyNone)
PoolItems == {GoodItem, PyNone, NullDescriptionItem}

ItemLists == {<<i>> : i \in Items} \cup SeqsUpTo(PoolItems, MaxResults)

\* what the request of line 79 can meet: a network exception, an HTTP error
\* status, or a JSON body
ApiOutcomes ==
    {[kind |-> "exception", body |-> PyNone],
     [kind |-> "http_error", body |-> PyNone]}
    \cup {[kind |-> "json", body |-> b] : b \in
            {PyList(<<>>), PyDict(EmptyDict), PyDict("data" :> PyNone)}
            \cup {PyDict("data" :> PyList(l)) : l \in ItemLists}}

IdentityOrder == [k \in DOMAIN companies |-> k]

\* the jobs handed to the content generators
SampleJobs ==
    {simulate_job_discovery(r, l, IdentityOrder)[1] : r \in Roles, l \in Locations}
    \cup {MapItem(GoodItem, r, l) : r \in Roles, l \in Locations}
    \cup {MapItem(PyDict("employer_website" :> PyStr(SAcmeSite)
                         @@ "employer_name" :> PyNone
                         @@ "job_title" :> PyNone), r, l) : r \in Roles, l \in Locations}
    \cup {EmptyDict, "job_description" :> PyNone}

SampleJobLists ==
    {<<>>, <<"job_description" :> PyNone>>,
     simulate_job_discovery(PyStr(<<"Python Developer">>), PyStr(<<"Ahmedabad">>),
                            IdentityOrder)}

\* the local variables of the agent logic before a run
NoRun ==
    [resume_text |-> <<>>, manual_role |-> PyStr(<<>>), location |-> PyStr(<<>>),
     role |-> PyNone, skills |-> PyNone, found_jobs |-> <<>>, idx |-> 0,
     questions |-> PyNone, slept |-> 0, email_status |-> PyNone]

Init ==
    /\ fn = "none"
    /\ args = NoArgs
    /\ fret = PyNone
    /\ gpc = "idle"
    /\ attempt = 0
    /\ gtrace = <<>>
    /\ gret = PyNone
    /\ dpc = "idle"
    /\ apc = "idle"
    /\ run = NoRun
    /\ stats = [jobs_found |-> 0, emails_sent |-> 0, skipped |-> 0]
    /\ outcome = "none"
    /\ runs = 0

\* the caller has taken the returned value: the frame of the call is gone
CallOver ==
    /\ fn' = "none"
    /\ args' = NoArgs
    /\ fret' = PyNone
    /\ dpc' = "idle"
    /\ gpc' = "idle" /\ attempt' = 0 /\ gtrace' = <<>> /\ gret' = PyNone

Forget ==
    /\ fn = "done"
    /\ CallOver
    /\ UNCHANGED avars

Functions == {"gemini", "parse", "cover", "interview"}

Next ==
    \/ \E p \in Prompts : CallGemini(p) /\ UNCHANGED avars
    \/ \E r \in Resumes : CallParse(r) /\ UNCHANGED avars
    \/ \E r \in Resumes, j \in SampleJobs : CallCover(r, j) /\ UNCHANGED avars
    \/ \E role \in Roles, r \in Resumes, js \in SampleJobLists :
          CallInterview(role, r, js) /\ UNCHANGED avars
    \/ \E role \in Roles, l \in Locations, k \in Keys :
          DiscoverCall(role, l, k) /\ UNCHANGED avars
    \/ \E text \in Responses : GeminiOk(text)
    \/ \E msg \in ErrorMessages : GeminiFail(msg)
    \/ GeminiSleep
    \/ \E f \in Functions : Return(f)
    \/ \E api \in ApiOutcomes : DiscoverSearch(api)
    \/ \E p \in Shuffles : DiscoverSimulate(p)
    \/ Forget

Spec == Init /\ [][Next]_vars
----------------------------------------------------------------------------
(* The agent logic of app.py: one run per press of the start button *)

InterJobDelay == 20
ExtractionDelay == 1

SError == <<"E", "r", "r", "o", "r">>

\* line 225: the arguments the call site passes
InterviewCallArgs(role, api_key) == <<role, api_key>>

\* a call binds when every parameter gets an argument; no parameter of
\* generate_interview_questions has a default value
CallBinds(params, actuals) == Len(actuals) = Len(params)

\* lines 155-161 raise (AttributeError, TypeError) on these parsed_data
AnalysisRaises(parsed_data) ==
    \/ parsed_data.t # "dict"
    \/ LET skills == DictGet(parsed_data.v, "skills", PyList(<<>>)) IN
       \/ ~CanSlice(skills)
       \/ skills.t = "list" /\ \E k \in DOMAIN Take(skills.v, 3) : skills.v[k].t # "str"

\* lines 148-156
TargetRole(manual_role, parsed_data) ==
    IF Truthy(manual_role) THEN manual_role
    ELSE DictGet(parsed_data.v, "role", PyStr(<<"Unknown">>))

\* lines 231-237: the except and finally clauses end the run
RunEnds(how) ==
    /\ outcome' = how
    /\ apc' = "idle"

\* lines 127-152: the button is pressed; utils.extract_text_from_pdf gives
\* extracted
AppStart(uploaded, credentials, extracted, manual_role, location) ==
    /\ apc = "idle" /\ fn = "none"
    /\ runs < MaxRuns
    /\ runs' = runs + 1
    /\ UNCHANGED stats
    /\ IF ~uploaded
       THEN RunEnds("no_resume") /\ UNCHANGED <<run, fvars, gvars>>
       ELSE IF ~credentials
       THEN RunEnds("no_credentials") /\ UNCHANGED <<run, fvars, gvars>>
       ELSE IF Contains(extracted, SError)
       THEN /\ RunEnds("stopped")
            /\ run' = [NoRun EXCEPT !.resume_text = extracted]
            /\ UNCHANGED <<fvars, gvars>>
       ELSE /\ run' = [NoRun EXCEPT !.resume_text = extracted,
                                    !.manual_role = manual_role,
                                    !.role = manual_role,
                                    !.skills = PyList(<<>>),
                                    !.location = location]
            /\ CallParse(extracted)
            /\ apc' = "parse"
            /\ outcome' = "running"

\* lines 152-170: parse_resume_with_ai has returned; the role, the skills,
\* then simulate_job_discovery, random.shuffle leaving the order p
AppAnalyzed(p) ==
    /\ apc = "parse" /\ fn = "done"
    /\ CallOver
    /\ UNCHANGED runs
    /\ IF fret.t = "raise" \/ AnalysisRaises(fret)
       THEN RunEnds("critical_error") /\ UNCHANGED <<run, stats>>
       ELSE LET role == TargetRole(run.manual_role, fret)
                found_jobs == simulate_job_discovery(role, run.location, p)
            IN  /\ run' = [run EXCEPT !.role = role,
                                      !.skills = DictGet(fret.v, "skills", PyList(<<>>)),
                                      !.found_jobs = found_jobs,
                                      !.idx = 1]
                /\ stats' = [stats EXCEPT !.jobs_found = @ + Len(found_jobs)]
                /\ apc' = "job"
                /\ UNCHANGED outcome

\* lines 172-182: the next job of the for loop, up to the call of
\* generate_cover_letter
AppJob ==
    /\ apc = "job" /\ fn = "none"
    /\ run.idx <= Len(run.found_jobs)
    /\ run' = [run EXCEPT !.slept = @ + ExtractionDelay]
    /\ CallCover(run.resume_text, run.found_jobs[run.idx])
    /\ apc' = "cover"
    /\ UNCHANGED <<stats, outcome, runs>>

\* lines 197-204: the counter that a job's application moves
CountApplication_both(s, email_status) ==
    [s EXCEPT !.emails_sent = @ + 1, !.skipped = @ + 1]

CountApplication(s, email_status) ==
    IF email_status
    THEN [s EXCEPT !.emails_sent = @ + 1]
    ELSE [s EXCEPT !.skipped = @ + 1]

\* lines 182-221: generate_cover_letter has returned; utils.send_email gives
\* email_status; the counters; the delay between jobs
AppApplied(email_status) ==
    /\ apc = "cover" /\ fn = "done"
    /\ CallOver
    /\ UNCHANGED runs
    /\ IF fret.t = "raise"
       THEN RunEnds("critical_error") /\ UNCHANGED <<run, stats>>
       ELSE /\ stats' = CountApplication(stats, email_status)
            /\ run' = [run EXCEPT !.slept = @ + InterJobDelay, !.idx = @ + 1,
                                  !.email_status = PyBool(email_status)]
            /\ apc' = "job"
            /\ UNCHANGED outcome

\* lines 223-229: after the loop, the call of generate_interview_questions of
\* line 225, and, the questions returned, the success message
AppInterview ==
    IF apc = "job"
    THEN /\ fn = "none"
         /\ run.idx > Len(run.found_jobs)
         /\ UNCHANGED <<stats, runs>>
         /\ IF CallBinds(InterviewParams, InterviewCallArgs(run.role, "api_key"))
            THEN /\ CallInterview(run.role, run.resume_text, run.found_jobs)
                 /\ apc' = "interview"
                 /\ UNCHANGED <<run, outcome>>
            ELSE /\ RunEnds("critical_error")          \* TypeError
                 /\ UNCHANGED <<run, fvars, gvars>>
    ELSE /\ apc = "interview" /\ fn = "done"
         /\ CallOver
         /\ UNCHANGED <<stats, runs>>
         /\ IF fret.t = "raise"
            THEN RunEnds("critical_error") /\ UNCHANGED run
            ELSE RunEnds("complete") /\ run' = [run EXCEPT !.questions = fret]

\* what the calls of get_gemini_response meet during a run
AppResponses ==
    {RBare, RLetter, <<"[", "]">>,
     <<"{", QRole, ":", QPython, ",", QSkills, ":", "1", "}">>}
AppErrorMessages == {S429, <<"5", "0", "0">>}
AppResumes == {<<"Python developer, 3 years">>, SError \o <<" reading PDF">>}
ManualRoles == {PyStr(<<>>), PyStr(<<"Python Developer">>)}

NextApp ==
    \/ \E uploaded, credentials \in BOOLEAN, extracted \in AppResumes,
          manual_role \in ManualRoles, location \in Locations :
          AppStart(uploaded, credentials, extracted, manual_role, location)
    \/ \E p \in Shuffles : AppAnalyzed(p)
    \/ AppJob
    \/ \E email_status \in BOOLEAN : AppApplied(email_status)
    \/ AppInterview
    \/ \E text \in AppResponses : GeminiOk(text)
    \/ \E msg \in AppErrorMessages : GeminiFail(msg)
    \/ GeminiSleep
    \/ \E f \in Functions : Return(f)

SpecApp == Init /\ [][NextApp]_vars
----------------------------------------------------------------------------
(* Properties *)

\* the rate-limit class of the claims: the message contains "429" or
\* "Quota exceeded"
RateLimitClass(msg) ==
    \/ \E i \in 1..(Len(msg) - 2) : msg[i] = "4" /\ msg[i + 1] = "2" /\ msg[i + 2] = "9"
    \/ \E i \in 0..(Len(msg) - Len(SQuota)) :
          \A j \in 1..Len(SQuota) : msg[i + j] = SQuota[j]

\* get_gemini_response has returned and its caller has not gone on yet
GeminiReturned == gtrace # <<>> /\ (gpc = "ret" \/ fn = "done")

\* function f has returned
Returned(f) == fn = "done" /\ args.f = f

RequestsAt == {i \in DOMAIN gtrace : gtrace[i].e = "req"}
SleepsAt == {i \in DOMAIN gtrace : gtrace[i].e = "sleep"}
AllRateLimited ==
    \A i \in RequestsAt : gtrace[i].out = "err" /\ RateLimitClass(gtrace[i].msg)

\* C1: when every request of a call fails with a rate-limit-class error until
\* the retries are exhausted, the call returns None and raises nothing.
C1_ExhaustedReturnsNone ==
    (AllRateLimited /\ (GeminiReturned \/ Cardinality(RequestsAt) = 3))
        => GeminiReturned /\ gret = PyNone

C1_Witness ==
    /\ gpc = "ret" /\ AllRateLimited /\ Cardinality(RequestsAt) = 3
    /\ gret = PyNone

\* C8: a request failing with an error outside the rate-limit class ends the
\* call at once with the text "Error: <message>": no retry and no sleep follow
\* it and nothing is raised, whatever number of rate-limit errors came before.
C8_OtherErrorReturnsText ==
    \A i \in RequestsAt :
        (gtrace[i].out = "err" /\ ~RateLimitClass(gtrace[i].msg))
            => /\ i = Len(gtrace)
               /\ GeminiReturned
               /\ gret = [t |-> "str", v |-> <<"E", "r", "r", "o", "r", ":", " ">> \o gtrace[i].msg]

C8_Witness ==
    /\ gpc = "ret" /\ Len(gtrace) = 5
    /\ RateLimitClass(gtrace[1].msg) /\ RateLimitClass(gtrace[3].msg)
    /\ gtrace[5].out = "err" /\ ~RateLimitClass(gtrace[5].msg)
    /\ gret.t = "str"

\* C9: a call issues at most 3 requests; a sleep happens only right after a
\* request that failed with a rate-limit-class error and is followed by the
\* next request; the sleep before retry k lasts 10 * 2^(k-1) seconds, 10 then
\* 20; no sleep follows the last attempt; the first successful request ends
\* the call with its text.
C9_BoundedBackoff ==
    /\ Cardinality(RequestsAt) <= 3
    /\ \A i \in SleepsAt :
          LET k == Cardinality({j \in SleepsAt : j <= i}) IN
          /\ i > 1
          /\ gtrace[i - 1].e = "req" /\ gtrace[i - 1].out = "err"
          /\ RateLimitClass(gtrace[i - 1].msg)
          /\ k \in {1, 2}
          /\ gtrace[i].t = 10 * (2 ^ (k - 1))
          /\ gtrace[i].t = IF k = 1 THEN 10 ELSE 20
          /\ IF i < Len(gtrace) THEN gtrace[i + 1].e = "req" ELSE gpc = "request"
    /\ \A i \in RequestsAt : i > 1 => gtrace[i - 1].e = "sleep"
    /\ GeminiReturned => gtrace[Len(gtrace)].e = "req"
    /\ \A i \in RequestsAt :
          gtrace[i].out = "ok"
              => i = Len(gtrace) /\ GeminiReturned
                 /\ gret = [t |-> "str", v |-> gtrace[i].msg]

C9_Witness ==
    /\ gpc = "ret" /\ Len(gtrace) = 5
    /\ gtrace[2].e = "sleep" /\ gtrace[2].t = 10
    /\ gtrace[4].e = "sleep" /\ gtrace[4].t = 20
    /\ gtrace[5].out = "ok" /\ gret = [t |-> "str", v |-> RBare]

HasRoleAndSkills(x) == x.t = "dict" /\ {"role", "skills"} \subseteq DOMAIN x.v

\* C2: whatever the resume text and whatever the text-generation call gave,
\* parse_resume_with_ai returns, raising nothing, a record that has a role key
\* and a skills key.
C2_RecordHasRoleAndSkills == Returned("parse") => HasRoleAndSkills(fret)

\* C4: when the text-generation call returned None the result is exactly
\* {role: "Software Developer", skills: ["Python"]}, with no error field; when
\* the response is not JSON (an "Error: ..." text included) the result has the
\* role and skills fields, the same role, and an error field with the text of
\* the error raised.
C4_Fallbacks ==
    Returned("parse") =>
        /\ gret.t = "None" =>
              /\ fret.t = "dict" /\ DOMAIN fret.v = {"role", "skills"}
              /\ fret.v["role"] = [t |-> "str", v |-> <<"Software Developer">>]
              /\ fret.v["skills"] = [t |-> "list", v |-> <<[t |-> "str", v |-> <<"Python">>]>>]
        /\ (gret.t = "str" /\ gret.v # <<>> /\ ~json_loads(CleanResponse(gret.v)).ok) =>
              /\ fret.t = "dict" /\ DOMAIN fret.v = {"role", "skills", "error"}
              /\ fret.v["role"] = [t |-> "str", v |-> <<"Software Developer">>]
              /\ fret.v["skills"].t = "list"
              /\ fret.v["error"] =
                    [t |-> "str", v |-> <<json_loads(CleanResponse(gret.v)).err>>]
              /\ fret.v["error"].v # <<"">>
        /\ (gret.t = "str" /\ Len(gret.v) >= 7 /\ SubSeq(gret.v, 1, 7) = SErrorPrefix) =>
              fret.t = "dict" /\ "error" \in DOMAIN fret.v

C4_Witness ==
    /\ Returned("parse")
    /\ gret.t = "str" /\ Len(gret.v) >= 7 /\ SubSeq(gret.v, 1, 7) = SErrorPrefix
    /\ "error" \in DOMAIN fret.v

\* the blank keys of the claims: absent or None, empty, or only white space
KeyBlank(key) == key.t = "None" \/ \A i \in DOMAIN key.v : key.v[i] \in {" ", "\n"}

\* the domain the claims derive from a company name: its characters in order,
\* lowercased, without spaces and periods
NameLetters(company) ==
    Lower(SelectSeq(company, LAMBDA c : c \notin {" ", "."}))

\* C5: with a blank search-API key discover_jobs returns exactly 3 listings
\* and the mode "simulated"; the listings are for 3 distinct companies of the
\* pool of 5, each with the hr_email hr@<letters of its company name>.com.
C5_SimulatedWithoutKey ==
    (Returned("discover") /\ KeyBlank(args.key)) =>
        /\ fret.mode = "simulated"
        /\ Len(fret.jobs) = 3
        /\ Cardinality(Range(companies)) = 5
        /\ Cardinality({fret.jobs[k].company : k \in 1..3}) = 3
        /\ \A k \in 1..3 :
              /\ fret.jobs[k].company.v \in Range(companies)
              /\ fret.jobs[k].hr_email.v # <<>>
              /\ fret.jobs[k].hr_email.v =
                    <<"h", "r", "@">> \o NameLetters(fret.jobs[k].company.v)
                    \o <<".", "c", "o", "m">>
              /\ \A i \in DOMAIN fret.jobs[k].hr_email.v :
                    fret.jobs[k].hr_email.v[i] \notin {" ", "A", "I", "D", "X", "T", "C", "S", "N", "W"}

C5_Witness ==
    /\ Returned("discover") /\ args.key = PyStr(<<" ", "\n">>)
    /\ fret.mode = "simulated"
    /\ fret.jobs[1].hr_email.v =
          <<"h", "r", "@", "d", "a", "t", "a", "s", "t", "r", "e", "a", "m", "i", "n", "c", ".", "c", "o", "m">>

\* C6: discover_jobs raises nothing and never returns an empty list; the mode
\* is "real" exactly when the key is not blank and the search gave at least
\* one listing, and then there are 1 to 3 listings, all "Found"; otherwise
\* there are exactly 3 listings, all "Found (Simulated)", and the mode is
\* "simulated".
C6_NeverEmpty ==
    Returned("discover") =>
        /\ fret.t = "tuple"
        /\ fret.jobs # <<>>
        /\ fret.mode = "real" <=>
              (~KeyBlank(args.key)
               /\ search_jobs_jsearch(args.role, args.location, args.api) # <<>>)
        /\ args.api.kind \in {"exception", "http_error"} => fret.mode = "simulated"
        /\ IF fret.mode = "real"
           THEN /\ Len(fret.jobs) \in 1..3
                /\ \A k \in DOMAIN fret.jobs : fret.jobs[k].status.v = <<"Found">>
           ELSE /\ fret.mode = "simulated"
                /\ Len(fret.jobs) = 3
                /\ \A k \in DOMAIN fret.jobs :
                      fret.jobs[k].status.v = <<"Found (Simulated)">>

\* a well-formed result item followed by a null one: the search maps the first
\* and then fails
C6_Witness ==
    /\ Returned("discover") /\ ~KeyBlank(args.key)
    /\ args.api.kind = "json" /\ args.api.body.t = "dict"
    /\ "data" \in DOMAIN args.api.body.v
    /\ args.api.body.v["data"] = PyList(<<GoodItem, PyNone>>)
    /\ fret.mode = "simulated" /\ Len(fret.jobs) = 3

\* the bare domain of the claims: lowercase, without the protocol, a leading
\* "www." and the path
StripPrefix(s, pre) ==
    IF Len(s) >= Len(pre) /\ SubSeq(s, 1, Len(pre)) = pre
    THEN SubSeq(s, Len(pre) + 1, Len(s)) ELSE s
BareDomain(website) ==
    SplitFirst(StripPrefix(StripPrefix(StripPrefix(Lower(website),
                   <<"h", "t", "t", "p", "s", ":", "/", "/">>),
                   <<"h", "t", "t", "p", ":", "/", "/">>),
                   <<"w", "w", "w", ".">>), "/")

\* the result item a real listing was made of
ItemOfListing(k) == args.api.body.v["data"].v[k].v
FieldText(item, f) == IF f \in DOMAIN item /\ item[f].t = "str" THEN item[f].v ELSE <<>>

\* C3: a real listing with an employer website has the hr_email hr@<bare
\* domain of the website> ("https://www.Acme.io/careers" gives hr@acme.io); one
\* without a website has hr@<company name lowercased, without spaces, commas
\* and periods>.com ("Tech, Corp." gives hr@techcorp.com).
C3_EmailPolicy ==
    (Returned("discover") /\ fret.mode = "real") =>
        \A k \in DOMAIN fret.jobs :
            LET website == FieldText(ItemOfListing(k), "employer_website")
                company == FieldText(ItemOfListing(k), "employer_name")
                email == fret.jobs[k].hr_email.v
            IN  /\ (website # <<>> /\ BareDomain(website) # <<>>)
                      => email = <<"h", "r", "@">> \o BareDomain(website)
                /\ website = SAcmeSite
                      => email = <<"h", "r", "@", "a", "c", "m", "e", ".", "i", "o">>
                /\ (website = <<>> /\ company # <<>>)
                      => email = <<"h", "r", "@">>
                                 \o Lower(SelectSeq(company, LAMBDA c : c \notin {" ", ",", "."}))
                                 \o <<".", "c", "o", "m">>
                /\ (website = <<>> /\ company = STechCorp)
                      => email = <<"h", "r", "@", "t", "e", "c", "h", "c", "o", "r", "p", ".", "c", "o", "m">>

\* C7: when the text-generation call returned None, generate_cover_letter
\* returns the fallback template, which holds the fallback-mode marker and the
\* role and the company of the job; when the call returned a non-empty text,
\* that text is returned unchanged.
C7_CoverLetterFallback ==
    (Returned("cover") /\ fret.t # "raise") =>
        /\ gret.t = "None" =>
              /\ fret.t = "str"
              /\ Contains(fret.v, <<SFallbackMarker>>)
              /\ \A f \in {"role", "company"} :
                    (f \in DOMAIN args.job /\ args.job[f].t = "str")
                        => Contains(fret.v, args.job[f].v)
        /\ (gret.t = "str" /\ gret.v # <<>>) => fret = gret

C7_Witness ==
    /\ Returned("cover") /\ gret.t = "None" /\ fret.t = "str"
    /\ "role" \in DOMAIN args.job /\ args.job["role"] = PyStr(<<"Python Developer">>)
    /\ args.job["company"].t = "str" /\ Len(args.job["company"].v) > 4
    /\ Contains(fret.v, <<"Python Developer">>)

\* the per-job loop of the current run has gone through every discovered job
LoopFinished == run.found_jobs # <<>> /\ run.idx > Len(run.found_jobs)

\* C10: a run whose per-job loop finishes for all discovered jobs obtains the
\* interview questions and ends "Job Hunt Cycle Complete", not in the
\* critical-error branch.
C10_RunCompletes ==
    (apc = "idle" /\ LoopFinished) =>
        /\ outcome = "complete"
        /\ run.questions.t = "str"

\* the step of the job loop that moves a counter of the session
CounterMoves == stats'.emails_sent # stats.emails_sent \/ stats'.skipped # stats.skipped

\* the job the loop is at has its cover letter and no counter has moved for it
CoverLetterReady ==
    /\ apc = "cover" /\ fn = "done"
    /\ args.f = "cover" /\ fret.t = "str"
    /\ run.idx \in 1..Len(run.found_jobs)
    /\ args.job = run.found_jobs[run.idx]

\* the counters within what was discovered
CountersBounded == stats.emails_sent + stats.skipped <= stats.jobs_found

\* one job counted: one counter up by one, by the outcome of the send made
\* after the cover letter, then the delay and the next job in discovery order
OneJobCounted ==
    CounterMoves =>
        /\ CoverLetterReady
        /\ run'.email_status.t = "bool"
        /\ stats'.emails_sent = stats.emails_sent + (IF run'.email_status.v THEN 1 ELSE 0)
        /\ stats'.skipped = stats.skipped + (IF run'.email_status.v THEN 0 ELSE 1)
        /\ stats'.jobs_found = stats.jobs_found
        /\ run'.idx = run.idx + 1
        /\ run'.found_jobs = run.found_jobs
        /\ run'.slept = run.slept + InterJobDelay

\* the loop goes on to another job only by counting the one it is at
InOrder == (apc \in {"job", "cover"} /\ run'.idx # run.idx) => CounterMoves

\* C11: over the runs of one session emails_sent + skipped <= jobs_found in
\* every state; each processed job moves exactly one of emails_sent (send
\* succeeded) and skipped (send failed) up by exactly 1, only after its cover
\* letter was generated and its send attempted; the jobs are taken one at a
\* time in discovery order, the inter-job delay of 20 s after each.
C11_CountersWithinFound ==
    /\ []CountersBounded
    /\ [][OneJobCounted /\ InOrder]_vars

\* the second run of a session has gone through its three jobs, sends having
\* succeeded and failed, each job after its extraction and inter-job delay
C11_Witness ==
    /\ runs = 2 /\ stats.jobs_found = 2 * SimulatedCount
    /\ stats.emails_sent + stats.skipped = stats.jobs_found
    /\ stats.emails_sent >= 1 /\ stats.skipped >= 1
    /\ apc = "job" /\ run.idx = Len(run.found_jobs) + 1
    /\ run.slept = SimulatedCount * (ExtractionDelay + InterJobDelay)
====
